---- MODULE Spec2Model ----
(***************************************************************************)
(* Model of column_plugin/plugin.py: the ColumnPlugin object that patches  *)
(* the "Axially Loaded Column" module into a running Osdag main window.    *)
(*                                                                         *)
(* The host application is an object graph (top-level windows, their ui    *)
(* objects, their children), a set of Modules dictionaries, and the        *)
(* stacked pages with their grid layouts.  Every plugin method is one      *)
(* action; a Python exception that leaves a method is the outcome          *)
(* "raised", a normal return is "returned".                                *)
(***************************************************************************)
EXTENDS Integers, Sequences, FiniteSets, TLC

\* ------------------------------------------------------------------ bounds
NObj == 3          \* objects of the child graph / top-level windows
MaxEdges == 3      \* parent->child edges of the child graph
MaxSteps == 3      \* calls of register() and deactivate() in one run

\* ------------------------------------------------------------ Python values
None == 0          \* the Python None, as an object reference
NoAttr == -1       \* hasattr(obj, name) is False

Windows == 1..NObj                   \* candidate top-level widgets / graph nodes
UiObj(w) == NObj + w                 \* the object held by window w's ui attribute
AllObj == 1..(2 * NObj)
DictIds == {1, 2}                    \* the Modules dictionaries of the host

CM == "Compression Member"
TM == "Tension Member"
Categories == {CM, TM}

Item(kind, len, name, image, id) ==
    [kind |-> kind, len |-> len, name |-> name, image |-> image, id |-> id]
\* a callable (the trailing handler such as show_compression_module)
Handler == Item("callable", 0, "show_compression_module", "", "")
\* descriptors of the host
Strut == Item("tuple", 3, "Struts in Trusses", "strut.png", "Strut_Design")
Short == Item("tuple", 2, "Column_Design", "Column_Design", "")
OldColumn == Item("tuple", 3, "Columns in Frames", "old.png", "Column_Design")

Absent == [kind |-> "absent", items |-> <<>>]          \* key not in the dict
Leaf == [kind |-> "callable", items |-> <<>>]          \* a leaf handler
ListOf(s) == [kind |-> "list", items |-> s]

Methods == <<"initialize_module_buttons", "refresh_module_list",
             "setup_module_buttons", "update_ui">>

VARIABLES
    topLevel,    \* QApplication.topLevelWidgets(), in order
    modulesOf,   \* object -> id of the dict its Modules attribute holds, or NoAttr
    uiOf,        \* object -> its ui attribute: NoAttr, None or an object
    className,   \* object -> __class__.__name__
    kids,        \* object -> children(), in order
    dicts,       \* dict id -> category -> value
    main_win,    \* self.main_win
    host,        \* attributes of the host window and of the Python environment
    stack,       \* ui.myStackedWidget: its pages
    sysPath,     \* plugin_dir in sys.path
    steps,       \* calls of register() and deactivate() so far
    cur,         \* what the last call did
    prev,        \* what the call before it did
    trail        \* the registry at the start, the calls counted since then

vars == <<topLevel, modulesOf, uiOf, className, kids, dicts, main_win, host,
          stack, sysPath, steps, cur, prev, trail>>
graph == <<topLevel, modulesOf, uiOf, className, kids>>

\* ------------------------------------------------------------------ helpers
RECURSIVE SeqRange(_)
SeqRange(s) == IF s = <<>> THEN {} ELSE {Head(s)} \cup SeqRange(Tail(s))

NoRepeat(s) == \A i, j \in 1..Len(s) : i # j => s[i] # s[j]

hasattrModules(o) == o # None /\ o # NoAttr /\ modulesOf[o] # NoAttr
hasattrUi(o) == o # None /\ o # NoAttr /\ uiOf[o] # NoAttr

\* ------------------------------------------------------- find_main_window
\* a search in two passes: every window for Modules, then every window's ui
RECURSIVE DirectLoop(_)
DirectLoop(ws) ==
    IF ws = <<>> THEN None
    ELSE IF hasattrModules(Head(ws)) THEN Head(ws)
    ELSE DirectLoop(Tail(ws))
RECURSIVE NestedLoop(_)
NestedLoop(ws) ==
    IF ws = <<>> THEN None
    ELSE IF hasattrUi(Head(ws)) /\ hasattrModules(uiOf[Head(ws)]) THEN uiOf[Head(ws)]
    ELSE NestedLoop(Tail(ws))
FirstLoopInTwoPasses(ws) ==
    IF DirectLoop(ws) # None THEN DirectLoop(ws) ELSE NestedLoop(ws)

\* first loop, lines 65-81; lines 78-81 can return nothing new: they repeat the
\* test of line 67, which has failed when they are reached
RECURSIVE FirstLoop(_)
FirstLoop(ws) ==
    IF ws = <<>> THEN None
    ELSE LET widget == Head(ws) IN
         IF hasattrModules(widget) THEN widget
         ELSE IF hasattrUi(widget) /\ hasattrModules(uiOf[widget]) THEN uiOf[widget]
         ELSE FirstLoop(Tail(ws))

\* second loop, lines 85-87
RECURSIVE ClassLoop(_)
ClassLoop(ws) ==
    IF ws = <<>> THEN None
    ELSE IF className[Head(ws)] = "OsdagMainWindow" THEN Head(ws)
    ELSE ClassLoop(Tail(ws))

find_main_window ==
    LET direct == FirstLoop(topLevel) IN
    IF direct # None THEN direct ELSE ClassLoop(topLevel)

\* ------------------------------------------------------ _find_modules_dict
\* The state threaded through the nested search: the shared visited set, the
\* objects in the order they were entered, the result, and overflow: the chain
\* of nested calls grew longer than the number of objects, so some object is
\* entered again below itself and the search would never end.
SearchStart == [visited |-> {}, visits |-> <<>>, res |-> None, overflow |-> FALSE]
MaxDepth == 2 * NObj + 1

RECURSIVE search_unguarded(_, _, _)
RECURSIVE search_children_unguarded(_, _, _)
\* the search without the test of line 119
search_unguarded(widget, st, fuel) ==
    IF fuel = 0 THEN [st EXCEPT !.overflow = TRUE]
    ELSE LET st1 == [st EXCEPT !.visited = @ \cup {widget},
                               !.visits = Append(@, widget)] IN
         IF hasattrModules(widget) THEN [st1 EXCEPT !.res = widget]
         ELSE search_children_unguarded(kids[widget], st1, fuel - 1)

search_children_unguarded(ks, st, fuel) ==
    IF ks = <<>> THEN [st EXCEPT !.res = None]
    ELSE LET r == search_unguarded(Head(ks), st, fuel) IN
         IF r.overflow \/ r.res # None THEN r
         ELSE search_children_unguarded(Tail(ks), r, fuel)

RECURSIVE search_for_modules(_, _, _)
RECURSIVE search_children(_, _, _)
search_for_modules(widget, st, fuel) ==
    IF fuel = 0 THEN [st EXCEPT !.overflow = TRUE]
    ELSE IF widget \in st.visited THEN [st EXCEPT !.res = None]
    ELSE LET st1 == [st EXCEPT !.visited = @ \cup {widget},
                               !.visits = Append(@, widget)] IN
         IF hasattrModules(widget) THEN [st1 EXCEPT !.res = widget]
         ELSE search_children(kids[widget], st1, fuel - 1)

search_children(ks, st, fuel) ==
    IF ks = <<>> THEN [st EXCEPT !.res = None]
    ELSE LET r == search_for_modules(Head(ks), st, fuel) IN
         IF r.overflow \/ r.res # None THEN r
         ELSE search_children(Tail(ks), r, fuel)

\* [outcome, obj, dict, visits]: (None, None) is obj = None, dict = None
FindResult(outcome, obj, visits) ==
    [outcome |-> outcome, obj |-> obj,
     dict |-> IF obj = None THEN None ELSE modulesOf[obj], visits |-> visits]

find_modules_dict(window_obj) ==
    IF hasattrModules(window_obj) THEN FindResult("returned", window_obj, <<>>)
    ELSE IF hasattrUi(window_obj) /\ hasattrModules(uiOf[window_obj])
         THEN FindResult("returned", uiOf[window_obj], <<>>)
    \* None has no children(): AttributeError at line 129
    ELSE IF window_obj = None THEN FindResult("raised", None, <<>>)
    ELSE LET r == search_for_modules(window_obj, SearchStart, MaxDepth) IN
         IF r.overflow THEN FindResult("diverged", None, r.visits)
         ELSE FindResult("returned", r.res, r.visits)

\* ------------------------------------------------------------- the pages
\* A page of ui.myStackedWidget.  cols are the child widgets that hold a radio
\* button named Column_Design, in child order; a widget that deleteLater() was
\* called on stays a child (pending) until the event loop runs.  layout is the
\* item list of page.ui.gridLayout; widget 0 is the parent of the Strut_Design
\* button, widget k > 0 is the Column widget with id k.
StrutW == 0
Cell(w, r, c) == [w |-> w, r |-> r, c |-> c]
Col(id, pending) == [id |-> id, pending |-> pending]

Page(exists, findable, strut, grid, group, cols, layout) ==
    [exists |-> exists, findable |-> findable, strut |-> strut, grid |-> grid,
     group |-> group, grouped |-> {}, cols |-> cols, layout |-> layout]

RECURSIVE Without(_, _)
\* QLayout.removeWidget(w)
Without(layout, w) ==
    IF layout = <<>> THEN <<>>
    ELSE IF Head(layout).w = w THEN Without(Tail(layout), w)
    ELSE <<Head(layout)>> \o Without(Tail(layout), w)

\* QGridLayout.addWidget(w, r, c)
AddWidget(layout, w, r, c) == Append(Without(layout, w), Cell(w, r, c))

\* the identity of a newly constructed widget: one no child of the page has
NewId(cols) == CHOOSE k \in 1..(Len(cols) + 1) :
                   /\ \A i \in 1..Len(cols) : cols[i].id # k
                   /\ \A j \in 1..(k - 1) : \E i \in 1..Len(cols) : cols[i].id = j

\* page.findChild(QRadioButton, 'Strut_Design') is not None
findStrut(p) == p.strut
\* page.findChild(QRadioButton, 'Column_Design') is not None
findColumn(p) == p.cols # <<>>

Step(page, status, events) == [page |-> page, status |-> status, events |-> events]

\* lines 264-297: the inner try of _update_live_ui on the Compression Member page
Rebuild(p, h, ev) ==
    IF h.fault = "resources" \/ h.fault = "Submodule_Widget"
    THEN Step(p, "next", ev \o <<"Error creating widget">>)
    ELSE LET id == NewId(p.cols)
             p2 == [p EXCEPT !.cols = Append(@, Col(id, FALSE)),
                             !.grouped = IF p.group THEN @ \cup {id} ELSE @]
             ev2 == ev \o (IF p.group THEN <<"Submodule_Widget", "addButton">>
                           ELSE <<"Submodule_Widget">>)
         IN IF h.fault = "addWidget"
            THEN Step(p2, "next", ev2 \o <<"addWidget", "Error creating widget">>)
            ELSE LET p3 == [p2 EXCEPT !.layout = AddWidget(@, id, 0, 0)] IN
                 IF h.fault = "removeWidget"
                 THEN Step(p3, "next",
                           ev2 \o <<"addWidget", "removeWidget", "Error creating widget">>)
                 ELSE Step([p3 EXCEPT !.layout = AddWidget(@, StrutW, 0, 1)], "done",
                           ev2 \o <<"addWidget", "removeWidget", "addWidget",
                                    "Successfully rebuilt UI with Column module">>)

\* lines 234-308: the body of the page loop of _update_live_ui
PageSurgery(p, h) ==
    IF ~(p.exists /\ p.findable /\ findStrut(p)) THEN Step(p, "next", <<>>)
    ELSE LET removeOld == findColumn(p) /\ p.grid IN
         IF removeOld /\ h.fault = "removeWidget"
         THEN Step(p, "raise", <<"removeWidget">>)
         ELSE LET p1 == IF removeOld
                        THEN [p EXCEPT !.layout = Without(@, p.cols[1].id),
                                       !.cols[1].pending = TRUE]
                        ELSE p
                  ev == IF removeOld THEN <<"removeWidget", "deleteLater">> ELSE <<>>
              IN IF p.grid THEN Rebuild(p1, h, ev)
                 ELSE Step(p1, "next", ev \o <<"Could not find gridLayout in page">>)

\* the page loop, lines 233-308: [pages, status, events]
RECURSIVE PageLoop(_, _, _, _)
PageLoop(pages, i, h, ev) ==
    IF i > Len(pages) THEN [pages |-> pages, status |-> "next", events |-> ev]
    ELSE LET r == PageSurgery(pages[i], h)
             ps == [pages EXCEPT ![i] = r.page]
         IN IF r.status = "next" THEN PageLoop(ps, i + 1, h, ev \o r.events)
            ELSE [pages |-> ps, status |-> r.status, events |-> ev \o r.events]

\* Method 2, lines 313-323: the events of the refresh methods, in order
RECURSIVE RefreshLoop(_, _)
RefreshLoop(h, i) ==
    IF i > Len(Methods) THEN <<>>
    ELSE (IF h.refresh[i] = "absent" THEN <<>>
          ELSE IF h.refresh[i] = "ok" THEN <<Methods[i]>>
          ELSE <<Methods[i], "Error calling">>) \o RefreshLoop(h, i + 1)

ui_updated(h) == \E i \in 1..Len(Methods) : h.refresh[i] = "ok"

\* hasattr(window_obj, 'ui') and hasattr(window_obj.ui, 'myStackedWidget')
hasStack(window_obj, stk) ==
    hasattrUi(window_obj) /\ uiOf[window_obj] # None /\ stk.has

\* _update_live_ui without the return of line 294: Method 2 runs in any case
update_live_ui_refreshing(window_obj, stk, h) ==
    LET loop == IF hasStack(window_obj, stk) THEN PageLoop(stk.pages, 1, h, <<>>)
                ELSE [pages |-> stk.pages, status |-> "next",
                      events |-> <<"Could not find UI or stackedWidget">>]
    IN IF loop.status = "raise"
       THEN [pages |-> loop.pages, ret |-> FALSE,
             events |-> loop.events \o <<"Error in _update_live_ui">>]
       ELSE [pages |-> loop.pages, ret |-> loop.status = "done" \/ ui_updated(h),
             events |-> loop.events \o RefreshLoop(h, 1)]

\* _update_live_ui(window_obj): [pages, ret, events]
update_live_ui(window_obj, stk, h) ==
    LET loop == IF hasStack(window_obj, stk) THEN PageLoop(stk.pages, 1, h, <<>>)
                ELSE [pages |-> stk.pages, status |-> "next",
                      events |-> <<"Could not find UI or stackedWidget">>]
    IN IF loop.status = "done"
       THEN [pages |-> loop.pages, ret |-> TRUE, events |-> loop.events]
       ELSE IF loop.status = "raise"
       THEN [pages |-> loop.pages, ret |-> FALSE,
             events |-> loop.events \o <<"Error in _update_live_ui">>]
       ELSE [pages |-> loop.pages, ret |-> ui_updated(h),
             events |-> loop.events \o RefreshLoop(h, 1)
                        \o (IF ui_updated(h) THEN <<>> ELSE <<"UI update failed">>)]

\* ---------------------------------------------------------------- register
\* get_image_path: the host's resource, or the plugin's own file when
\* importlib.resources.files raises
get_image_path(h) ==
    IF h.fault = "no_osdag" THEN "plugin/column/resources/column.png"
    ELSE "osdag/CompressionMembers_ColumnsInFrames.png"

column_entry(h) ==
    Item("tuple", 3, "Axially Loaded Column", get_image_path(h), "Column_Design")

\* the list methods a slip would put in the place of insert(0, entry)
InsertEntryAtEnd(items, entry) == Append(items, entry)
InsertEntryOnce(items, entry) ==
    IF \E i \in 1..Len(items) : items[i].kind = "tuple" /\ items[i].id = entry.id
    THEN items ELSE <<entry>> \o items

\* list.insert(0, entry), line 184
InsertEntry(items, entry) == <<entry>> \o items

\* register without the test of line 175
LastIsCallableUnchecked(items) == TRUE

\* callable(compression_module[-1]), line 175 (the list is not empty)
LastIsCallable(items) == items[Len(items)].kind = "callable"

\* "not modules_dict", lines 159 and 364: None, or a dict without keys
IsFalsy(fr) == fr.obj = None \/ \A c \in Categories : dicts[fr.dict][c].kind = "absent"

\* real_main_window of lines 146-149 and 353-355
RealMainWindow ==
    LET w == find_main_window IN IF w = None THEN main_win ELSE w

NoFind == [outcome |-> "none", obj |-> None, dict |-> None, visits |-> <<>>]

\* What a call leaves behind; fr is what its _find_modules_dict returned, NoFind
\* when the call ended before or in it.
Run(outcome, events, d, pages, h, path, inserted, ret, fr) ==
    [outcome |-> outcome, events |-> events, dicts |-> d, pages |-> pages,
     host |-> h, sysPath |-> path, inserted |-> inserted, ret |-> ret, fr |-> fr]

Unchanged(outcome, events, h, fr) ==
    Run(outcome, events, dicts, stack.pages, h, sysPath, FALSE, "none", fr)

\* lines 176-211 with the insertion undone when a later step fails
RegisterEntryRollback(rw, fr) ==
    LET d1 == [dicts EXCEPT ![fr.dict][CM].items = InsertEntry(@, column_entry(host))]
        ev == <<"Added Column module to Compression Member module">>
    IN  IF ~host.show
        THEN Run("raised", ev, dicts, stack.pages, host, sysPath, TRUE, "none", fr)
        ELSE LET ui == update_live_ui(rw, stack, host)
             IN Run("returned", ev \o ui.events \o <<"Column Plugin activated">>,
                    IF ui.ret THEN d1 ELSE dicts, ui.pages, host, TRUE, TRUE,
                    IF ui.ret THEN "True" ELSE "False", fr)

\* lines 176-211: the list is a list that ends in a callable
RegisterEntry(rw, fr) ==
    LET d1 == [dicts EXCEPT ![fr.dict][CM].items = InsertEntry(@, column_entry(host))]
        ev == <<"Added Column module to Compression Member module">>
    IN  \* line 192: AttributeError when the window has no such attribute
        IF ~host.show
        THEN Run("raised", ev, d1, stack.pages, host, sysPath, TRUE, "none", fr)
        ELSE LET ev1 == IF host.fault = "no_osdag"
                        THEN ev \o <<"Warning: Could not import ColumnDesign">>
                        ELSE ev
                 ui == update_live_ui(rw, stack, host)
             IN Run("returned", ev1 \o ui.events \o <<"Column Plugin activated">>,
                    d1, ui.pages, host, TRUE, TRUE,
                    IF ui.ret THEN "True" ELSE "False", fr)

\* lines 157-219
RegisterRun(rw) ==
    LET fr == find_modules_dict(rw) IN
    IF fr.outcome # "returned" THEN Unchanged(fr.outcome, <<>>, host, NoFind)
    ELSE IF IsFalsy(fr)
    THEN Unchanged("returned", <<"Error: Could not find Modules dictionary">>, host, fr)
    ELSE LET cm == dicts[fr.dict][CM] IN
         IF cm.kind = "absent"
         THEN Unchanged("returned",
                        <<"Error: Compression Member module not found in Modules dictionary">>,
                        host, fr)
         ELSE IF cm.kind # "list"
         THEN Unchanged("returned", <<"Error: Compression Member module is not a list">>,
                        host, fr)
         \* compression_module[-1] of an empty list: IndexError
         ELSE IF cm.items = <<>> THEN Unchanged("raised", <<>>, host, fr)
         ELSE IF LastIsCallable(cm.items) THEN RegisterEntry(rw, fr)
         ELSE Unchanged("returned",
                        <<"Error: Compression Member module doesn't have a handler function">>,
                        host, fr)

\* -------------------------------------------------------------- deactivate
\* isinstance(item, tuple) and len(item) >= 3 and item[2] == 'Column_Design'
IsColumn(item) == item.kind = "tuple" /\ item.len >= 3 /\ item.id = "Column_Design"

RECURSIVE RemoveEveryColumn(_)
\* the loop of lines 375-381 without its break
RemoveEveryColumn(items) ==
    IF items = <<>> THEN <<>>
    ELSE IF IsColumn(Head(items)) THEN RemoveEveryColumn(Tail(items))
    ELSE <<Head(items)>> \o RemoveEveryColumn(Tail(items))

RECURSIVE RemoveColumn(_)
\* lines 375-381: pop the first Column entry, then break
RemoveColumn(items) ==
    IF items = <<>> THEN <<>>
    ELSE IF IsColumn(Head(items)) THEN Tail(items)
    ELSE <<Head(items)>> \o RemoveColumn(Tail(items))

\* the page loop's body without the test of line 400: parent() of None
PageRemovalUnguarded(p, h) ==
    IF ~(p.exists /\ p.findable /\ findStrut(p)) THEN Step(p, "next", <<>>)
    ELSE IF ~findColumn(p) THEN Step(p, "raise", <<>>)
    ELSE IF ~p.grid THEN Step(p, "next", <<"Could not find gridLayout in page">>)
    ELSE IF h.fault = "removeWidget" THEN Step(p, "raise", <<"removeWidget">>)
    ELSE Step([p EXCEPT !.layout = Without(@, p.cols[1].id), !.cols[1].pending = TRUE],
              "next", <<"removeWidget", "deleteLater">>)

\* lines 393-410: the body of the page loop of deactivate
PageRemoval(p, h) ==
    IF ~(p.exists /\ p.findable /\ findStrut(p)) THEN Step(p, "next", <<>>)
    ELSE IF ~findColumn(p) THEN Step(p, "next", <<>>)
    ELSE IF ~p.grid THEN Step(p, "next", <<"Could not find gridLayout in page">>)
    ELSE IF h.fault = "removeWidget" THEN Step(p, "raise", <<"removeWidget">>)
    ELSE Step([p EXCEPT !.layout = Without(@, p.cols[1].id), !.cols[1].pending = TRUE],
              "next", <<"removeWidget", "deleteLater">>)

RECURSIVE RemovalLoop(_, _, _, _)
\* lines 389-410
RemovalLoop(pages, i, h, ev) ==
    IF i > Len(pages) THEN [pages |-> pages, status |-> "next", events |-> ev]
    ELSE LET r == PageRemoval(pages[i], h)
             ps == [pages EXCEPT ![i] = r.page]
         IN IF r.status = "next" THEN RemovalLoop(ps, i + 1, h, ev \o r.events)
            ELSE [pages |-> ps, status |-> r.status, events |-> ev \o r.events]

\* deactivate with its page loop outside the test of line 369
DeactivateDictPagesAnyway(rw, fr, h, ev) ==
    LET cm == dicts[fr.dict][CM]
        d1 == IF cm.kind = "list"
              THEN [dicts EXCEPT ![fr.dict][CM].items = RemoveColumn(@)] ELSE dicts
        loop == IF hasStack(rw, stack) THEN RemovalLoop(stack.pages, 1, h, <<>>)
                ELSE [pages |-> stack.pages, status |-> "next", events |-> <<>>]
    IN Run(IF loop.status = "raise" THEN "raised" ELSE "returned",
           ev \o (IF cm.kind = "absent"
                  THEN <<"Error: Compression Member module not found in Modules dictionary">>
                  ELSE <<>>) \o loop.events,
           d1, loop.pages, h, sysPath, FALSE, "none", fr)

\* lines 369-414, after the Modules dictionary was found
DeactivateDict(rw, fr, h, ev) ==
    LET cm == dicts[fr.dict][CM] IN
    IF cm.kind = "absent"
    THEN Unchanged("returned",
                   ev \o <<"Error: Compression Member module not found in Modules dictionary">>,
                   h, fr)
    ELSE IF cm.kind # "list"
    THEN Unchanged("returned", ev \o <<"Error: Compression Member module is not a list">>,
                   h, fr)
    ELSE LET d1 == [dicts EXCEPT ![fr.dict][CM].items = RemoveColumn(@)]
             loop == IF hasStack(rw, stack) THEN RemovalLoop(stack.pages, 1, h, <<>>)
                     ELSE [pages |-> stack.pages, status |-> "next", events |-> <<>>]
         IN Run(IF loop.status = "raise" THEN "raised" ELSE "returned",
                ev \o loop.events, d1, loop.pages, h, sysPath, FALSE, "none", fr)

\* lines 357-366
DeactivateRun(rw) ==
    LET closing == rw # None /\ host.module = "Column" IN
    IF closing /\ host.fault = "close" THEN Unchanged("raised", <<"close">>, host, NoFind)
    ELSE LET h == IF closing THEN [host EXCEPT !.closed = TRUE] ELSE host
             ev == IF closing THEN <<"close">> ELSE <<>>
             fr == find_modules_dict(rw)
         IN IF fr.outcome # "returned" THEN Unchanged(fr.outcome, ev, h, NoFind)
            ELSE IF IsFalsy(fr)
            THEN Unchanged("returned", ev \o <<"Error: Could not find Modules dictionary">>,
                           h, fr)
            ELSE DeactivateDict(rw, fr, h, ev)

\* ------------------------------------------------------------ the history
Record(op, arg, outcome, win, fr, events, inserted, ret) ==
    [op |-> op, arg |-> arg, outcome |-> outcome, win |-> win,
     obj |-> fr.obj, dict |-> fr.dict, visits |-> fr.visits, events |-> events,
     inserted |-> inserted, ret |-> ret,
     dictsBefore |-> dicts, pagesBefore |-> stack.pages, hostBefore |-> host]

\* ------------------------------------------------------------- the actions
ColCount(items) == Cardinality({i \in 1..Len(items) : IsColumn(items[i])})

\* the model follows a run for MaxSteps calls
Room == steps < MaxSteps

Apply(r) ==
    /\ dicts' = r.dicts
    /\ stack' = [stack EXCEPT !.pages = r.pages]
    /\ host' = r.host
    /\ sysPath' = r.sysPath
    /\ steps' = steps + 1
    /\ prev' = cur
    /\ UNCHANGED graph

\* register(), lines 139-219
Register ==
    /\ Room
    /\ LET rw == RealMainWindow
           r == RegisterRun(rw)
       IN /\ main_win' = rw
          /\ cur' = Record("register", None, r.outcome, rw, r.fr, r.events,
                           r.inserted, r.ret)
          /\ trail' = [trail EXCEPT
                          !.k = @ + 1,
                          !.found = @ \cup {r.fr.dict},
                          !.completed = @ /\ r.outcome = "returned"]
          /\ Apply(r)

\* deactivate(), lines 346-416
Deactivate ==
    LET rw == RealMainWindow
        r == DeactivateRun(rw)
    IN /\ Room
       /\ UNCHANGED main_win
       /\ cur' = Record("deactivate", None, r.outcome, rw, r.fr, r.events,
                        r.inserted, r.ret)
       /\ trail' = [trail EXCEPT
                       !.k = IF @ > 0 THEN @ - 1 ELSE 0,
                       !.found = @ \cup {r.fr.dict},
                       !.completed = @ /\ r.outcome = "returned"]
       /\ Apply(r)

RECURSIVE Alive(_)
Alive(cols) ==
    IF cols = <<>> THEN <<>>
    ELSE IF Head(cols).pending THEN Alive(Tail(cols))
    ELSE <<Head(cols)>> \o Alive(Tail(cols))

\* The host's event loop gets control back: the widgets deleteLater() was
\* called on (lines 257 and 408) are deleted.
EventLoop ==
    /\ \E i \in 1..Len(stack.pages) : \E k \in 1..Len(stack.pages[i].cols) :
           stack.pages[i].cols[k].pending
    /\ stack' = [stack EXCEPT !.pages =
                    [i \in 1..Len(stack.pages) |->
                        [stack.pages[i] EXCEPT !.cols = Alive(@)]]]
    /\ cur' = Record("event_loop", None, "returned", None, NoFind, <<>>, FALSE, "none")
    /\ prev' = cur
    /\ UNCHANGED <<graph, dicts, main_win, host, sysPath, steps, trail>>

\* find_main_window(), lines 58-90
FindMainWindow ==
    /\ cur.op = "init"
    /\ cur' = Record("find_main_window", None, "returned", find_main_window, NoFind,
                     <<>>, FALSE, "none")
    /\ prev' = cur
    /\ UNCHANGED <<graph, dicts, main_win, host, stack, sysPath, steps, trail>>

\* _find_modules_dict(window_obj), lines 92-137
FindModulesDict ==
    \E w \in {None, 1} :
        LET fr == find_modules_dict(w) IN
        /\ cur.op = "init"
        /\ cur' = Record("_find_modules_dict", w, fr.outcome, None, fr, <<>>, FALSE, "none")
        /\ prev' = cur
        /\ UNCHANGED <<graph, dicts, main_win, host, stack, sysPath, steps, trail>>

\* --------------------------------------------------------- the host states
NoRefresh == [i \in 1..Len(Methods) |-> "absent"]
Host(show, module, fault, refresh) ==
    [show |-> show, module |-> module, closed |-> FALSE, fault |-> fault,
     refresh |-> refresh]

Tension == Item("tuple", 3, "Tension Member Design", "tension.png", "Tension_Bolted")
TMList == ListOf(<<Tension, Handler>>)
Dict(cm, tm) == [c \in Categories |-> IF c = CM THEN cm ELSE tm]
Decoy == Dict(ListOf(<<Strut, Handler>>), TMList)

NoStack == [has |-> FALSE, pages |-> <<>>]
Stack(pages) == [has |-> TRUE, pages |-> pages]
\* the Compression Member page as the host builds it
StrutPage == Page(TRUE, TRUE, TRUE, TRUE, TRUE, <<>>, <<Cell(StrutW, 0, 0)>>)
\* the same page of a host that already shows a Column module
ColumnPage == Page(TRUE, TRUE, TRUE, TRUE, TRUE, <<Col(1, FALSE)>>,
                   <<Cell(1, 0, 0), Cell(StrutW, 0, 1)>>)

Start == Record("init", None, "none", None, NoFind, <<>>, FALSE, "none")
\* nothing called yet: trail keeps the registry as the host built it, counts
\* the calls (k: one up per register(), one down per deactivate(), never
\* below 0), collects the registries the calls found and remembers whether
\* every call returned
Fresh ==
    /\ sysPath = FALSE /\ steps = 0 /\ cur = Start /\ prev = Start
    /\ trail = [orig |-> dicts, k |-> 0, found |-> {}, completed |-> TRUE]

\* A plugins dialog (1), the main window (2) with its ui object and one child
\* (3); where says which object holds the Modules attribute.
Places == {"direct", "ui", "child", "nowhere"}
HostGraph(where) ==
    /\ modulesOf = [o \in AllObj |->
                      IF \/ where = "direct" /\ o = 2
                         \/ where = "ui" /\ o = UiObj(2)
                         \/ where = "child" /\ o = 3 THEN 1
                      ELSE IF o = UiObj(3) THEN 2
                      ELSE NoAttr]
    /\ uiOf = [o \in AllObj |-> IF o \in {1, 2} THEN UiObj(o) ELSE NoAttr]
    /\ className = [o \in AllObj |-> IF o = 2 THEN "OsdagMainWindow"
                                     ELSE IF o = 1 THEN "QDialog" ELSE "QWidget"]
    /\ kids = [o \in AllObj |-> IF o = 2 THEN <<3>> ELSE <<>>]

Registries ==
    { Dict(Absent, TMList), Dict(Absent, Absent), Dict(Leaf, TMList),
      Dict(ListOf(<<>>), TMList), Dict(ListOf(<<Handler>>), TMList),
      Dict(ListOf(<<Strut, Handler>>), TMList), Dict(ListOf(<<Strut>>), TMList),
      Dict(ListOf(<<OldColumn, Strut, Handler>>), TMList),
      Dict(ListOf(<<Strut, OldColumn, Handler>>), TMList),
      Dict(ListOf(<<Short, Strut, Handler>>), TMList) }

\* hosts that differ in where the window and the registry are and in what the
\* registry holds
InitRegistry ==
    /\ \E where \in Places : HostGraph(where)
    /\ \E tm \in {<<<<1>>, None>>, <<<<1>>, 2>>, <<<<1, 2>>, None>>} :
           topLevel = tm[1] /\ main_win = tm[2]
    /\ \E reg \in Registries : dicts = [d \in DictIds |-> IF d = 1 THEN reg ELSE Decoy]
    /\ \E show \in BOOLEAN,
          mf \in {<<"none", "none">>, <<"Column", "none">>, <<"Column", "close">>,
                  <<"none", "no_osdag">>} :
           host = Host(show, mf[1], mf[2], NoRefresh)
    /\ stack \in {NoStack, Stack(<<StrutPage>>)}
    /\ Fresh

MaxPages == 2      \* pages of the stacked widget

\* stack.widget(i) is None
NonePage == Page(FALSE, FALSE, FALSE, FALSE, FALSE, <<>>, <<>>)
\* a page object without findChild
PlainPage == Page(TRUE, FALSE, FALSE, FALSE, FALSE, <<>>, <<>>)
\* a page of another module that happens to hold a Column_Design button
OtherPage == Page(TRUE, TRUE, FALSE, TRUE, TRUE, <<Col(1, FALSE)>>, <<Cell(1, 0, 0)>>)
\* Compression Member pages whose ui has no gridLayout
NoGridPage == Page(TRUE, TRUE, TRUE, FALSE, FALSE, <<>>, <<>>)
NoGridColumnPage == Page(TRUE, TRUE, TRUE, FALSE, FALSE, <<Col(1, FALSE)>>, <<>>)
PageKinds == {PlainPage, OtherPage, StrutPage, ColumnPage, NoGridColumnPage}
Stacks == {NoStack} \cup {Stack(ps) : ps \in UNION {[1..n -> PageKinds] : n \in 0..MaxPages}}

Faults == {"none", "no_osdag", "Submodule_Widget", "addWidget", "removeWidget"}
RefreshStates == {"absent", "ok", "raises"}

\* hosts that differ in their pages, in the refresh methods of the window and
\* in the widget operation that raises
InitUI ==
    /\ HostGraph("direct")
    /\ topLevel = <<1, 2>>
    /\ main_win = None
    /\ \/ /\ stack \in Stacks
          /\ \E reg \in {Dict(ListOf(<<Strut, Handler>>), TMList), Dict(Absent, TMList)} :
                 dicts = [d \in DictIds |-> IF d = 1 THEN reg ELSE Decoy]
          /\ \E fault \in Faults,
                refresh \in {NoRefresh, [NoRefresh EXCEPT ![Len(Methods)] = "ok"]} :
                 host = Host(TRUE, "none", fault, refresh)
       \/ /\ stack \in {NoStack, Stack(<<StrutPage>>), Stack(<<ColumnPage>>),
                         Stack(<<NoGridPage>>), Stack(<<NonePage>>)}
          /\ dicts = [d \in DictIds |->
                         IF d = 1 THEN Dict(ListOf(<<Strut, Handler>>), TMList) ELSE Decoy]
          /\ \E fault \in {"none", "addWidget", "removeWidget"},
                refresh \in [1..Len(Methods) -> RefreshStates] :
                 host = Host(TRUE, "none", fault, refresh)
    /\ Fresh

Init == InitRegistry \/ InitUI

Next == Register \/ Deactivate \/ EventLoop

Spec == Init /\ [][Next]_vars

\* ------------------------------------------- the searches, on their own
KidSeqs == {s \in UNION {[1..n -> Windows] : n \in 0..NObj} : NoRepeat(s)}

RECURSIVE KidsOf(_, _)
\* the child lists of objects 1..n with at most budget edges together
KidsOf(n, budget) ==
    IF n = 0 THEN {<<>>}
    ELSE UNION { {Append(g, s) : g \in KidsOf(n - 1, budget - Len(s))} :
                 s \in {t \in KidSeqs : Len(t) <= budget} }

UiKinds == {"noattr", "none", "plain", "modules"}
UiAttr(w, kind) == IF kind = "noattr" THEN NoAttr
                   ELSE IF kind = "none" THEN None ELSE UiObj(w)

Quiet ==
    /\ dicts = [d \in DictIds |-> Decoy]
    /\ main_win = None
    /\ host = Host(TRUE, "none", "none", NoRefresh)
    /\ stack = NoStack
    /\ Fresh

\* any list of top-level windows: each exposes Modules or not, has no ui, a ui
\* that is None, a ui without Modules or a ui with Modules, and is of class
\* OsdagMainWindow or not
InitWindows ==
    /\ \E n \in 0..NObj :
        \E direct \in [1..n -> BOOLEAN], ui \in [1..n -> UiKinds], main \in [1..n -> BOOLEAN] :
           /\ topLevel = [i \in 1..n |-> i]
           /\ modulesOf = [o \in AllObj |->
                  IF o \in 1..n /\ direct[o] THEN 1
                  ELSE IF o - NObj \in 1..n /\ ui[o - NObj] = "modules" THEN 1
                  ELSE NoAttr]
           /\ uiOf = [o \in AllObj |-> IF o \in 1..n THEN UiAttr(o, ui[o]) ELSE NoAttr]
           /\ className = [o \in AllObj |->
                  IF o \in 1..n /\ main[o] THEN "OsdagMainWindow" ELSE "QWidget"]
    /\ kids = [o \in AllObj |-> <<>>]
    /\ Quiet

\* any child graph below window 1, cycles included; its ui attribute, when it
\* has one, exposes Modules (InitWindows has the other kinds of ui)
InitGraphs ==
    /\ topLevel = <<>>
    /\ \E g \in KidsOf(NObj, MaxEdges) :
           kids = [o \in AllObj |-> IF o \in Windows THEN g[o] ELSE <<>>]
    /\ \E exposing \in SUBSET Windows, ui \in {"noattr", "modules"} :
           /\ modulesOf = [o \in AllObj |->
                  IF o \in exposing \/ (o = UiObj(1) /\ ui = "modules") THEN 1 ELSE NoAttr]
           /\ uiOf = [o \in AllObj |-> IF o = 1 THEN UiAttr(1, ui) ELSE NoAttr]
    /\ className = [o \in AllObj |-> "QWidget"]
    /\ Quiet

InitFind == InitWindows \/ InitGraphs

NextFind == FindMainWindow \/ FindModulesDict

SpecFind == InitFind /\ [][NextFind]_vars

\* ================================================================ claims
WellFormed(v) == v.kind = "list" /\ v.items # <<>> /\ v.items[Len(v.items)].kind = "callable"
IsColumnEntry(item) ==
    /\ item.kind = "tuple" /\ item.len = 3
    /\ item.name = "Axially Loaded Column" /\ item.id = "Column_Design"
    /\ item.image \in {"osdag/CompressionMembers_ColumnsInFrames.png",
                       "plugin/column/resources/column.png"}
Has(events, e) == \E k \in 1..Len(events) : events[k] = e

\* C1: when register() and then deactivate() both return, on a registry whose
\* "Compression Member" value was a non-empty list ending in a callable, the
\* list is again what it was before register(): same elements, same order.
RegisterThenDeactivate ==
    /\ prev.op = "register" /\ prev.outcome = "returned"
    /\ cur.op = "deactivate" /\ cur.outcome = "returned"
    /\ prev.dict # None
    /\ WellFormed(prev.dictsBefore[prev.dict][CM])
C1_RoundTrip ==
    RegisterThenDeactivate => dicts[prev.dict][CM] = prev.dictsBefore[prev.dict][CM]
\* the round trip on a list that already held a Column_Design descriptor
C1_Witness ==
    /\ RegisterThenDeactivate
    /\ prev.inserted
    /\ \E i \in 1..Len(dicts[prev.dict][CM].items) : IsColumn(dicts[prev.dict][CM].items[i])

\* C2: register() does not look for an existing Column_Design descriptor: two
\* calls on a well-formed registry put two Column descriptors in front of what
\* the list held, so the list holds two more Column_Design descriptors.
RegisterTwice ==
    /\ prev.op = "register" /\ cur.op = "register"
    /\ prev.dict # None
    /\ WellFormed(prev.dictsBefore[prev.dict][CM])
C2_Duplicates ==
    RegisterTwice =>
        LET now == dicts[prev.dict][CM].items
            was == prev.dictsBefore[prev.dict][CM].items
        IN /\ cur.dict = prev.dict
           /\ Len(now) = Len(was) + 2
           /\ IsColumnEntry(now[1]) /\ IsColumnEntry(now[2])
           /\ ColCount(now) = ColCount(was) + 2
           /\ SubSeq(now, 3, Len(now)) = was
C2_Witness ==
    /\ RegisterTwice
    /\ ColCount(prev.dictsBefore[prev.dict][CM].items) = 0
    /\ ColCount(dicts[prev.dict][CM].items) = 2

\* C3: deactivate() on a registry without the "Compression Member" key changes
\* no registry, no list and no page, and reports the error: it logs it, unless
\* closing the open Column window raised before the registry was looked at.
MissingCategory ==
    /\ cur.op = "deactivate"
    /\ cur.dict # None
    /\ cur.dictsBefore[cur.dict][CM].kind = "absent"
C3_NoMutation ==
    cur.op = "deactivate" =>
        /\ MissingCategory =>
              /\ dicts = cur.dictsBefore
              /\ stack.pages = cur.pagesBefore
              /\ cur.outcome = "returned"
              /\ \/ Has(cur.events, "Error: Could not find Modules dictionary")
                 \/ Has(cur.events, "Error: Compression Member module not found in Modules dictionary")
        /\ cur.outcome = "raised" /\ cur.dict = None =>
              dicts = cur.dictsBefore /\ stack.pages = cur.pagesBefore
\* the key is missing from a dict that has other keys, and a page holds a
\* Column widget that a removal would take out of its layout
C3_Witness ==
    /\ MissingCategory
    /\ cur.dictsBefore[cur.dict][TM].kind = "list"
    /\ \E i \in 1..Len(stack.pages) :
          /\ stack.pages[i].strut /\ stack.pages[i].grid
          /\ stack.pages[i].cols # <<>>

\* C4: neither register() nor deactivate() lets an exception reach its caller.
C4_NeverRaises ==
    cur.op \in {"register", "deactivate"} => cur.outcome = "returned"

\* C5 as stated: on success register() adds the descriptor at the end of the
\* list, after every element that was there.
Inserted == cur.op = "register" /\ cur.outcome = "returned" /\ cur.inserted
C5_AppendsAtEnd ==
    Inserted =>
        LET now == dicts[cur.dict][CM].items
            was == cur.dictsBefore[cur.dict][CM].items
        IN /\ Len(now) = Len(was) + 1
           /\ IsColumnEntry(now[Len(now)])
           /\ SubSeq(now, 1, Len(was)) = was
\* C5 as amended: on success the list grows by exactly one element, the
\* descriptor ('Axially Loaded Column', image_path, 'Column_Design'), which is
\* put at the front of the list, before every element that was there.
C5_InsertsAtFront ==
    Inserted =>
        LET now == dicts[cur.dict][CM].items
            was == cur.dictsBefore[cur.dict][CM].items
        IN /\ Len(now) = Len(was) + 1
           /\ IsColumnEntry(now[1])
           /\ Tail(now) = was
           /\ \A d \in DictIds, c \in Categories :
                 (d # cur.dict \/ c # CM) => dicts[d][c] = cur.dictsBefore[d][c]
C5_Witness ==
    /\ Inserted
    /\ Len(dicts[cur.dict][CM].items) >= 3
    /\ ~IsColumnEntry(dicts[cur.dict][CM].items[Len(dicts[cur.dict][CM].items)])

\* C6: in deactivate(), when no page holds a radio button named Column_Design
\* (whether or not a page holds Strut_Design), the widget-removal step raises
\* nothing and takes no widget out of any layout: every page is as it was.
RemovalWithoutColumn ==
    /\ cur.op = "deactivate"
    /\ cur.dict # None
    /\ cur.dictsBefore[cur.dict][CM].kind = "list"
    /\ \A i \in 1..Len(cur.pagesBefore) : cur.pagesBefore[i].cols = <<>>
C6_RemovalIsQuiet ==
    RemovalWithoutColumn =>
        /\ cur.outcome = "returned"
        /\ stack.pages = cur.pagesBefore
        /\ ~Has(cur.events, "removeWidget") /\ ~Has(cur.events, "deleteLater")
\* the loop runs over a Compression Member page of a host whose removeWidget raises
C6_Witness ==
    /\ RemovalWithoutColumn
    /\ hasStack(cur.win, stack)
    /\ \E i \in 1..Len(stack.pages) : stack.pages[i].strut /\ stack.pages[i].grid
    /\ host.fault = "removeWidget"

\* C7: register() does not roll back: once the descriptor is in the list it is
\* still there when register() ends, also when the call raises for want of
\* show_compression_module or when _update_live_ui returns False.
C7_NoRollback ==
    (cur.op = "register" /\ cur.inserted) =>
        LET now == dicts[cur.dict][CM].items
            was == cur.dictsBefore[cur.dict][CM].items
        IN /\ Len(now) = Len(was) + 1
           /\ IsColumnEntry(now[1])
           /\ Tail(now) = was
\* the call ended in an exception after the insertion
C7_Witness ==
    /\ cur.op = "register" /\ cur.inserted
    /\ cur.outcome = "raised"
    /\ ~host.show

\* C10: _update_live_ui does the grid-layout surgery before any refresh method;
\* it calls no refresh method once the surgery has succeeded; and it returns
\* True exactly when the surgery succeeded or a refresh method ran without
\* raising, False otherwise.
IsRefresh(e) == \E i \in 1..Len(Methods) : Methods[i] = e
IsSurgery(e) == e \in {"removeWidget", "deleteLater", "Submodule_Widget", "addButton",
                       "addWidget"}
Rebuilt(events) == Has(events, "Successfully rebuilt UI with Column module")
RanWell(events) ==
    \E k \in 1..Len(events) :
        /\ IsRefresh(events[k])
        /\ (k = Len(events) \/ events[k + 1] # "Error calling")
LiveUiCalled == cur.op = "register" /\ cur.ret # "none"
C10_SurgeryThenRefresh ==
    LiveUiCalled =>
        /\ \A j, k \in 1..Len(cur.events) :
              (IsSurgery(cur.events[j]) /\ IsRefresh(cur.events[k])) => j < k
        /\ Rebuilt(cur.events) => \A k \in 1..Len(cur.events) : ~IsRefresh(cur.events[k])
        /\ cur.ret = "True" <=> (Rebuilt(cur.events) \/ RanWell(cur.events))
        /\ cur.ret \in {"True", "False"}
\* the surgery succeeded on a window that has a working refresh method
C10_Witness ==
    /\ LiveUiCalled
    /\ Rebuilt(cur.events)
    /\ \E i \in 1..Len(Methods) : host.refresh[i] = "ok"

\* ------------------------------------------------- claims on the searches
\* the objects below a window in depth-first pre-order over children(), each
\* once, at its first occurrence
RECURSIVE PreOrder(_, _)
RECURSIVE PreOrderAll(_, _)
PreOrder(o, seen) ==
    IF o \in seen THEN <<>>
    ELSE <<o>> \o PreOrderAll(kids[o], seen \cup {o})
PreOrderAll(ks, seen) ==
    IF ks = <<>> THEN <<>>
    ELSE LET first == PreOrder(Head(ks), seen) IN
         first \o PreOrderAll(Tail(ks), seen \cup SeqRange(first))

FirstExposing(order) ==
    IF \E k \in 1..Len(order) : hasattrModules(order[k])
    THEN order[CHOOSE k \in 1..Len(order) :
                  /\ hasattrModules(order[k])
                  /\ \A j \in 1..(k - 1) : ~hasattrModules(order[j])]
    ELSE None

\* C8: _find_modules_dict(window) returns the window with its Modules if the
\* window exposes Modules, else window.ui with its Modules if that exposes
\* Modules, else the first object exposing Modules in depth-first pre-order over
\* children(); the search ends on every child graph, cycles included, enters
\* no object twice, and returns (None, None) when nothing exposes Modules.
SearchedWindow == cur.op = "_find_modules_dict" /\ cur.arg # None
C8_FindModulesDict ==
    SearchedWindow =>
        LET w == cur.arg
            expected == IF hasattrModules(w) THEN w
                        ELSE IF hasattrUi(w) /\ hasattrModules(uiOf[w]) THEN uiOf[w]
                        ELSE FirstExposing(PreOrder(w, {}))
        IN /\ cur.outcome = "returned"
           /\ NoRepeat(cur.visits)
           /\ cur.obj = expected
           /\ cur.dict = (IF expected = None THEN None ELSE modulesOf[expected])
           /\ (\A o \in AllObj : ~hasattrModules(o)) => (cur.obj = None /\ cur.dict = None)
\* the search went round a cycle through the window and still found the
\* registry on the third object it entered
C8_Witness ==
    /\ SearchedWindow
    /\ Len(cur.visits) >= 3
    /\ cur.obj = cur.visits[Len(cur.visits)]
    /\ \E o \in SeqRange(cur.visits) : cur.arg \in SeqRange(kids[o])

Direct(w) == hasattrModules(w)
Nested(w) == ~hasattrModules(w) /\ hasattrUi(w) /\ hasattrModules(uiOf[w])
ByClass(w) == className[w] = "OsdagMainWindow"
Listed == SeqRange(topLevel)
Least(S) == CHOOSE i \in S : \A j \in S : i <= j

\* C9 as stated: a direct match anywhere in the list wins over a nested one; a
\* ui object is returned only when no window exposes Modules itself; a window
\* matched by class name only when neither kind exists; None only when no
\* window matches at all.
C9_DirectBeforeNested ==
    cur.op = "find_main_window" =>
        /\ (\E w \in Listed : Direct(w)) => (cur.win \in Listed /\ Direct(cur.win))
        /\ (\E w \in Listed : Nested(w) /\ cur.win = uiOf[w]) =>
              ~\E w \in Listed : Direct(w)
        /\ (cur.win \in Listed /\ ~Direct(cur.win)) =>
              ~\E w \in Listed : Direct(w) \/ Nested(w)
        /\ cur.win = None => ~\E w \in Listed : Direct(w) \/ Nested(w) \/ ByClass(w)
\* C9 as amended: the first window of the list that exposes Modules itself or
\* through its ui decides: the result is that window if it exposes Modules and
\* its ui object if not, so the nested match of an earlier window wins over the
\* direct match of a later one; the first window of class OsdagMainWindow is
\* returned only when no window exposes Modules either way; None only when no
\* window matches at all.
C9_FirstMatchWins ==
    cur.op = "find_main_window" =>
        LET hits == {i \in 1..Len(topLevel) : Direct(topLevel[i]) \/ Nested(topLevel[i])}
            named == {i \in 1..Len(topLevel) : ByClass(topLevel[i])}
        IN IF hits # {}
           THEN cur.win = (IF Direct(topLevel[Least(hits)]) THEN topLevel[Least(hits)]
                           ELSE uiOf[topLevel[Least(hits)]])
           ELSE IF named # {} THEN cur.win = topLevel[Least(named)]
           ELSE cur.win = None
\* the ui of an earlier window is returned although a later window exposes Modules
C9_Witness ==
    /\ cur.op = "find_main_window"
    /\ \E i, j \in 1..Len(topLevel) :
          /\ i < j
          /\ Nested(topLevel[i]) /\ cur.win = uiOf[topLevel[i]]
          /\ Direct(topLevel[j])

\* C11 as stated: the last element is never verified: whenever the category's
\* value is a list with a last element, register() inserts the descriptor,
\* whether or not that element is callable.
RegisterOnList ==
    /\ cur.op = "register"
    /\ cur.dict # None
    /\ cur.dictsBefore[cur.dict][CM].kind = "list"
C11_InsertsRegardless ==
    (RegisterOnList /\ cur.dictsBefore[cur.dict][CM].items # <<>>) =>
        /\ cur.inserted
        /\ Len(dicts[cur.dict][CM].items) = Len(cur.dictsBefore[cur.dict][CM].items) + 1
\* C11 as amended: register() does verify the last element (line 175): when the
\* category's value is a list, the descriptor is inserted exactly when the list
\* is not empty and its last element is callable; when the last element is not
\* callable register() logs an error, returns and leaves every list as it was,
\* and on an empty list it raises (IndexError) without inserting.
C11_InsertsOnlyBeforeCallable ==
    RegisterOnList =>
        LET was == cur.dictsBefore[cur.dict][CM].items
            callableLast == was # <<>> /\ was[Len(was)].kind = "callable"
        IN /\ cur.inserted <=> callableLast
           /\ callableLast => Len(dicts[cur.dict][CM].items) = Len(was) + 1
           /\ ~callableLast => dicts = cur.dictsBefore
           /\ (was # <<>> /\ ~callableLast) =>
                 /\ cur.outcome = "returned"
                 /\ Has(cur.events,
                        "Error: Compression Member module doesn't have a handler function")
           /\ was = <<>> => cur.outcome = "raised"
\* register() met a list whose last element is a descriptor and left it alone
C11_Witness ==
    /\ RegisterOnList
    /\ cur.dictsBefore[cur.dict][CM].items # <<>>
    /\ cur.dictsBefore[cur.dict][CM].items[Len(cur.dictsBefore[cur.dict][CM].items)].kind = "tuple"
    /\ ~cur.inserted
    /\ dicts = cur.dictsBefore

\* C12: start from a registry whose "Compression Member" list ends in a
\* callable and holds no Column_Design descriptor. After any sequence of
\* register() and deactivate() calls that all returned, the list is k copies
\* of the Column descriptor followed by the original list in its order, k
\* being one up per register() and one down per deactivate() but never below
\* 0; so the callable is still the last element, a deactivate() took away at
\* most one descriptor, and every other category (and every other dictionary)
\* is as it was.
Copies(k, entry) == [i \in 1..k |-> entry]
CallsCompleted ==
    /\ steps > 0
    /\ trail.completed
    /\ trail.found \in {{d} : d \in DictIds}
    /\ \A d \in trail.found :
          /\ WellFormed(trail.orig[d][CM])
          /\ ColCount(trail.orig[d][CM].items) = 0
C12_CopiesThenOriginal ==
    CallsCompleted =>
        \A d \in trail.found :
            LET now == dicts[d][CM].items
                was == cur.dictsBefore[d][CM].items
            IN /\ now = Copies(trail.k, column_entry(host)) \o trail.orig[d][CM].items
               /\ now[Len(now)].kind = "callable"
               /\ cur.op = "deactivate" => Len(was) - Len(now) \in {0, 1}
               /\ cur.op = "register" => Len(now) = Len(was) + 1
               /\ \A e \in DictIds, c \in Categories :
                      (e # d \/ c # CM) => dicts[e][c] = trail.orig[e][c]
\* register(), register(), deactivate() all returned: one descriptor is left
\* in front of the original list
C12_Witness ==
    /\ CallsCompleted
    /\ steps = 3 /\ trail.k = 1
    /\ cur.op = "deactivate" /\ prev.op = "register"
    /\ \A d \in trail.found :
          /\ ColCount(dicts[d][CM].items) = 1
          /\ ColCount(cur.dictsBefore[d][CM].items) = 2

====
